---- MODULE Spec2Model ----
(***************************************************************************)
(* Model of the cache engine of mcp-memory-cache: the class CacheManager   *)
(* of src/src/CacheManager.ts.  One CacheManager instance is modelled: its *)
(* Map of entries (in Map insertion order), its statistics record, its two *)
(* interval handles, the wall clock read by Date.now(), and the            *)
(* notifications handed to sendSseEvent.  It is the instance the class     *)
(* MemoryCacheServer of src/src/index.ts keeps in this.cacheManager; the   *)
(* variable cacheManager is the second instance, which index.ts creates    *)
(* at module level for the route POST /mcp.                                *)
(*                                                                         *)
(* JavaScript runs each method to completion on the event loop, so every   *)
(* method is one action.  A method reads the clock as one value `now`.     *)
(* Floating point numbers are modelled as exact rationals extended with    *)
(* NaN, +Infinity and -Infinity (IEEE 754 rounding is not modelled).       *)
(***************************************************************************)
EXTENDS Integers, Sequences, FiniteSets, TLC

VARIABLES cache, stats, now, cleanupInterval, statsUpdateInterval,
          emitted, last, cacheManager

vars == <<cache, stats, now, cleanupInterval, statsUpdateInterval,
          emitted, last, cacheManager>>

(***************************************************************************)
(* The configuration the modelled instance is constructed with, and the    *)
(* bounds of the model.                                                    *)
(***************************************************************************)
maxMemory  == 8      \* config.maxMemory (bytes)
defaultTTL == 1      \* config.defaultTTL (seconds)
TickMs     == 500    \* the clock advances in steps of TickMs milliseconds
MaxTicks   == 3      \* the clock stops after MaxTicks steps
MaxGets    == 2      \* get operations between two resets of the statistics
MaxGetsH   == 4      \* the same, in the specification SpecHits

MaxGetsE   == 1      \* the same, in the specification SpecErr
MaxTicksE  == 1      \* clock steps in the specification SpecErr
MaxFailAt  == 2      \* the sink may throw on call 1..MaxFailAt of a method

MaxGetsA   == 3      \* get operations between two resets, in SpecAvg
MaxDen     == 4      \* bound on the denominator of avgAccessTime in SpecAvg

MaxGetsL   == 1      \* get operations between two resets, in SpecLive

MaxGetsM   == 1      \* get operations of the module-level instance, in SpecTwo
MaxUsageM  == 8      \* its puts stop when its memoryUsage reaches MaxUsageM

\* the configuration of an instance constructed without a config
DefaultMaxMemory == 100 * 1024 * 1024
DefaultTTL       == 3600

Keys      == {"a", "b"}
Values    == {"", "x", "xxx"}
TTLArgs   == {<<>>, <<0>>}          \* ttl omitted, or ttl given (seconds)
Durations == {0}                    \* endTime - startTime of one operation

KeysH     == {"a"}
ValuesH   == {"x"}

ValuesE   == {"", "x"}
ArgsE     == {<<>>} \cup {<<v>> : v \in ValuesE}   \* value undefined, or given
FailAts   == 0..MaxFailAt           \* 0: the sink does not throw

ValuesL == {""}                    \* values in the specification SpecLive

DurationsA == {1, 2}               \* durations in the specification SpecAvg

NoKey == ""

(***************************************************************************)
(* Numbers: rationals [k |-> "fin", n, d] with d > 0 in lowest terms, and  *)
(* the IEEE special values NaN, Infinity, -Infinity.                       *)
(***************************************************************************)
RECURSIVE GCD(_, _)
GCD(a, b) == IF b = 0 THEN a ELSE GCD(b, a % b)

Abs(x) == IF x < 0 THEN -x ELSE x

Fin(n, d) ==
  LET g == GCD(Abs(n), d)
  IN  [k |-> "fin", n |-> n \div g, d |-> d \div g]

NaN    == [k |-> "nan", n |-> 0, d |-> 1]
PosInf == [k |-> "inf", n |-> 1, d |-> 1]
NegInf == [k |-> "inf", n |-> -1, d |-> 1]
Zero   == Fin(0, 1)

Sign(x) == IF x > 0 THEN 1 ELSE IF x < 0 THEN -1 ELSE 0

\* x * i for a number x and an integer i
NumTimesInt(x, i) ==
  CASE x.k = "nan" -> NaN
    [] x.k = "inf" -> IF i = 0 THEN NaN
                      ELSE IF Sign(i) * x.n > 0 THEN PosInf ELSE NegInf
    [] OTHER       -> Fin(x.n * i, x.d)

\* x + i for a number x and an integer i
NumPlusInt(x, i) ==
  CASE x.k = "nan" -> NaN
    [] x.k = "inf" -> x
    [] OTHER       -> Fin(x.n + i * x.d, x.d)

\* x / i for a number x and a non-negative integer i
NumDivInt(x, i) ==
  CASE x.k = "nan" -> NaN
    [] x.k = "inf" -> x
    [] i = 0       -> IF x.n = 0 THEN NaN
                      ELSE IF x.n > 0 THEN PosInf ELSE NegInf
    [] OTHER       -> Fin(x.n, x.d * i)

(***************************************************************************)
(* Values and their size.                                                  *)
(***************************************************************************)
\* JSON.stringify of a string without characters that need escaping
Stringify(value) == "\"" \o value \o "\""

calculateSize(value) == Len(Stringify(value)) * 2

(***************************************************************************)
(* The Map<string, CacheEntry>, as the sequence of its entries in          *)
(* insertion order; each element carries its key.                          *)
(***************************************************************************)
KeysOf(c) == {c[i].key : i \in 1..Len(c)}

HasKey(c, key) == key \in KeysOf(c)

IndexOf(c, key) == CHOOSE i \in 1..Len(c) : c[i].key = key

EntryOf(c, key) == c[IndexOf(c, key)]

\* Map.prototype.set: an existing key keeps its position
MapSet(c, entry) ==
  IF HasKey(c, entry.key)
  THEN [c EXCEPT ![IndexOf(c, entry.key)] = entry]
  ELSE Append(c, entry)

\* Map.prototype.delete
MapDelete(c, key) == SelectSeq(c, LAMBDA e : e.key # key)

RECURSIVE SumSizes(_)
SumSizes(c) == IF c = <<>> THEN 0 ELSE Head(c).size + SumSizes(Tail(c))

(***************************************************************************)
(* Statistics                                                              *)
(***************************************************************************)
\* the statistics record the constructor builds
InitialStats ==
  [totalEntries |-> 0, memoryUsage |-> 0, hits |-> 0, misses |-> 0,
   hitRate |-> Zero, avgAccessTime |-> Zero]

\* resetStats that leaves the running mean as it is
resetStats_KeepsAvg ==
  [totalEntries |-> 0, memoryUsage |-> 0, hits |-> 0, misses |-> 0,
   hitRate |-> Zero, avgAccessTime |-> stats.avgAccessTime]

resetStats ==
  [totalEntries |-> 0, memoryUsage |-> 0, hits |-> 0, misses |-> 0,
   hitRate |-> Zero, avgAccessTime |-> Zero]

\* updateHitRate that stores the fraction instead of the percentage
updateHitRate_Fraction(st) ==
  LET total == st.hits + st.misses
  IN  [st EXCEPT !.hitRate = IF total > 0 THEN Fin(st.hits, total) ELSE Zero]

updateHitRate(st) ==
  LET total == st.hits + st.misses
  IN  [st EXCEPT !.hitRate = IF total > 0 THEN Fin(st.hits * 100, total)
                             ELSE Zero]

\* a miss that is counted as a hit
recordMiss_AsHit(st) == updateHitRate([st EXCEPT !.hits = @ + 1])

\* a miss that starts the count of hits again
recordMiss_ResetsHits(st) ==
  updateHitRate([st EXCEPT !.misses = @ + 1, !.hits = 0])

\* this.stats.misses++; this.updateHitRate();
recordMiss(st) == updateHitRate([st EXCEPT !.misses = @ + 1])

updateAccessTime(st, duration) ==
  LET total == st.hits + st.misses
  IN  [st EXCEPT !.avgAccessTime =
         NumDivInt(NumPlusInt(NumTimesInt(st.avgAccessTime, total - 1),
                              duration),
                   total)]

(***************************************************************************)
(* Methods that other methods call work on the triple                      *)
(* [cache, stats, emitted] and return the triple they leave.               *)
(***************************************************************************)
\* a sink that receives the newest notification first
sendSseEvent_Prepend(em, event, key, value) ==
  <<[event |-> event, key |-> key, value |-> value]>> \o em

\* a sink that is only told about the puts
sendSseEvent_OnlySet(em, event, key, value) ==
  IF event = "cache-set"
  THEN Append(em, [event |-> event, key |-> key, value |-> value])
  ELSE em

sendSseEvent(em, event, key, value) ==
  Append(em, [event |-> event, key |-> key, value |-> value])

\* isExpired that ignores the entry's own ttl
isExpired_DefaultOnly(entry, t) == t > entry.created + defaultTTL * 1000

isExpired(entry, t) == t > entry.created + entry.ttl * 1000

\* delete that leaves totalEntries as it was
delete_StaleCount(S, key) ==
  IF HasKey(S.cache, key)
  THEN [cache   |-> MapDelete(S.cache, key),
        stats   |-> [S.stats EXCEPT
                       !.memoryUsage = @ - EntryOf(S.cache, key).size],
        emitted |-> sendSseEvent(S.emitted, "cache-delete", key, <<>>),
        ret     |-> TRUE]
  ELSE [cache |-> S.cache, stats |-> S.stats, emitted |-> S.emitted,
        ret |-> FALSE]

\* delete that does not notify
delete_Silent(S, key) ==
  IF HasKey(S.cache, key)
  THEN LET c2 == MapDelete(S.cache, key)
       IN  [cache   |-> c2,
            stats   |-> [S.stats EXCEPT
                           !.memoryUsage = @ - EntryOf(S.cache, key).size,
                           !.totalEntries = Len(c2)],
            emitted |-> S.emitted,
            ret     |-> TRUE]
  ELSE [cache |-> S.cache, stats |-> S.stats, emitted |-> S.emitted,
        ret |-> FALSE]

\* delete that notifies also when the key is not in the map
delete_AlwaysNotifies(S, key) ==
  IF HasKey(S.cache, key)
  THEN LET c2 == MapDelete(S.cache, key)
       IN  [cache   |-> c2,
            stats   |-> [S.stats EXCEPT
                           !.memoryUsage = @ - EntryOf(S.cache, key).size,
                           !.totalEntries = Len(c2)],
            emitted |-> sendSseEvent(S.emitted, "cache-delete", key, <<>>),
            ret     |-> TRUE]
  ELSE [cache |-> S.cache, stats |-> S.stats,
        emitted |-> sendSseEvent(S.emitted, "cache-delete", key, <<>>),
        ret |-> FALSE]

delete(S, key) ==
  IF HasKey(S.cache, key)
  THEN LET entry == EntryOf(S.cache, key)
           c2    == MapDelete(S.cache, key)
       IN  [cache   |-> c2,
            stats   |-> [S.stats EXCEPT
                           !.memoryUsage = @ - entry.size,
                           !.totalEntries = Len(c2)],
            emitted |-> sendSseEvent(S.emitted, "cache-delete", key, <<>>),
            ret     |-> TRUE]
  ELSE [cache |-> S.cache, stats |-> S.stats, emitted |-> S.emitted,
        ret |-> FALSE]

\* a sweep that returns after its first removal
RECURSIVE evictStaleLoop_StopsAfterFirst(_, _, _)
evictStaleLoop_StopsAfterFirst(S, todo, t) ==
  IF todo = <<>> THEN S
  ELSE LET e == Head(todo)
       IN  IF HasKey(S.cache, e.key) /\ isExpired(e, t)
           THEN LET S2 == delete(S, e.key)
                IN  [cache |-> S2.cache, stats |-> S2.stats,
                     emitted |-> S2.emitted]
           ELSE evictStaleLoop_StopsAfterFirst(S, Tail(todo), t)

\* a sweep that leaves the entries that were never read
RECURSIVE evictStaleLoop_OnlyRead(_, _, _)
evictStaleLoop_OnlyRead(S, todo, t) ==
  IF todo = <<>> THEN S
  ELSE LET e  == Head(todo)
           S2 == IF /\ HasKey(S.cache, e.key)
                    /\ isExpired(e, t)
                    /\ e.lastAccessed > e.created
                 THEN delete(S, e.key) ELSE S
       IN  evictStaleLoop_OnlyRead([cache |-> S2.cache, stats |-> S2.stats,
                                    emitted |-> S2.emitted], Tail(todo), t)

\* the for..of loop of evictStale over the entries in `todo`
RECURSIVE evictStaleLoop(_, _, _)
evictStaleLoop(S, todo, t) ==
  IF todo = <<>> THEN S
  ELSE LET e  == Head(todo)
           S2 == IF HasKey(S.cache, e.key) /\ isExpired(e, t)
                 THEN delete(S, e.key) ELSE S
       IN  evictStaleLoop([cache |-> S2.cache, stats |-> S2.stats,
                           emitted |-> S2.emitted], Tail(todo), t)

\* Array.prototype.sort with (a, b) => a.lastAccessed - b.lastAccessed:
\* a stable sort, ascending in lastAccessed
RECURSIVE InsertSorted(_, _)
InsertSorted(sorted, e) ==
  IF sorted = <<>> THEN <<e>>
  ELSE IF Head(sorted).lastAccessed <= e.lastAccessed
       THEN <<Head(sorted)>> \o InsertSorted(Tail(sorted), e)
       ELSE <<e>> \o sorted

RECURSIVE SortByLastAccessed(_)
SortByLastAccessed(c) ==
  IF c = <<>> THEN <<>>
  ELSE InsertSorted(SortByLastAccessed(SubSeq(c, 1, Len(c) - 1)), c[Len(c)])

\* a loop that goes on evicting after the required size fits
RECURSIVE enforceLoop_EvictsAll(_, _, _)
enforceLoop_EvictsAll(S, entries, requiredSize) ==
  IF Len(entries) > 0
  THEN LET S2 == delete(S, Head(entries).key)
       IN  enforceLoop_EvictsAll([cache |-> S2.cache, stats |-> S2.stats,
                                  emitted |-> S2.emitted],
                                 Tail(entries), requiredSize)
  ELSE S

\* the while loop of enforceMemoryLimit over the sorted array `entries`
RECURSIVE enforceLoop(_, _, _)
enforceLoop(S, entries, requiredSize) ==
  IF S.stats.memoryUsage + requiredSize > maxMemory /\ Len(entries) > 0
  THEN LET S2 == delete(S, Head(entries).key)
       IN  enforceLoop([cache |-> S2.cache, stats |-> S2.stats,
                        emitted |-> S2.emitted], Tail(entries), requiredSize)
  ELSE S

\* enforceMemoryLimit that evicts in Map insertion order
enforceMemoryLimit_Unsorted(S, requiredSize) ==
  enforceLoop(S, S.cache, requiredSize)

enforceMemoryLimit(S, requiredSize) ==
  enforceLoop(S, SortByLastAccessed(S.cache), requiredSize)

\* ttl || this.config.defaultTTL: a ttl of 0 taken as missing
ttlOrDefault_Falsy(ttl) ==
  IF ttl = <<>> \/ ttl[1] = 0 THEN defaultTTL ELSE ttl[1]

\* ttl ?? this.config.defaultTTL, for ttl = <<>> (undefined) or <<seconds>>
ttlOrDefault(ttl) == IF ttl = <<>> THEN defaultTTL ELSE ttl[1]

Here == [cache |-> cache, stats |-> stats, emitted |-> <<>>]

Last(op, key, value, ttl, ret) ==
  [op |-> op, key |-> key, value |-> value, ttl |-> ttl, ret |-> ret]

Undefined == <<"undefined">>
Void      == <<"void">>
Value(v)  == <<"value", v>>
Bool(b)   == <<"boolean", IF b THEN "true" ELSE "false">>

(***************************************************************************)
(* Initial state: the state the constructor leaves.                        *)
(***************************************************************************)
Init ==
  /\ cache = <<>>
  /\ stats = InitialStats
  /\ now = 0
  /\ cleanupInterval = TRUE
  /\ statsUpdateInterval = TRUE
  /\ emitted = <<>>
  /\ last = Last("new", NoKey, <<>>, <<>>, Void)
  /\ cacheManager = [cache |-> <<>>, stats |-> InitialStats,
                     cleanupInterval |-> TRUE,
                     statsUpdateInterval |-> TRUE]

(***************************************************************************)
(* Public methods                                                          *)
(***************************************************************************)
set(key, value, ttl, duration) ==
  LET size  == calculateSize(value)
      S1    == IF stats.memoryUsage + size > maxMemory
               THEN enforceMemoryLimit(Here, size)
               ELSE Here
      entry == [key |-> key, value |-> value, created |-> now,
                lastAccessed |-> now,
                ttl |-> ttlOrDefault(ttl),
                size |-> size]
      c2    == MapSet(S1.cache, entry)
      st2   == [S1.stats EXCEPT !.totalEntries = Len(c2),
                                !.memoryUsage = @ + size]
  IN  /\ cache' = c2
      /\ stats' = updateAccessTime(st2, duration)
      /\ emitted' = sendSseEvent(S1.emitted, "cache-set", key, <<value>>)
      /\ last' = Last("set", key, <<value>>, ttl, Void)
      /\ UNCHANGED <<now, cleanupInterval, statsUpdateInterval, cacheManager>>

\* a get whose hit also renews the entry's creation time
get_HitRenewsCreated(key, duration) ==
  /\ IF ~HasKey(cache, key)
     THEN /\ stats' = recordMiss(stats)
          /\ cache' = cache
          /\ emitted' = <<>>
          /\ last' = Last("get", key, <<>>, <<>>, Undefined)
     ELSE LET entry == EntryOf(cache, key)
          IN  IF isExpired(entry, now)
              THEN LET S1 == delete(Here, key)
                   IN  /\ cache' = S1.cache
                       /\ stats' = recordMiss(S1.stats)
                       /\ emitted' = S1.emitted
                       /\ last' = Last("get", key, <<>>, <<>>, Undefined)
              ELSE /\ cache' = MapSet(cache,
                                 [entry EXCEPT !.lastAccessed = now,
                                               !.created = now])
                   /\ stats' = updateAccessTime(
                                 updateHitRate([stats EXCEPT !.hits = @ + 1]),
                                 duration)
                   /\ emitted' = <<>>
                   /\ last' = Last("get", key, <<>>, <<>>,
                                   Value(entry.value))
  /\ UNCHANGED <<now, cleanupInterval, statsUpdateInterval, cacheManager>>

get(key, duration) ==
  /\ IF ~HasKey(cache, key)
     THEN /\ stats' = recordMiss(stats)
          /\ cache' = cache
          /\ emitted' = <<>>
          /\ last' = Last("get", key, <<>>, <<>>, Undefined)
     ELSE LET entry == EntryOf(cache, key)
          IN  IF isExpired(entry, now)
              THEN LET S1 == delete(Here, key)
                   IN  /\ cache' = S1.cache
                       /\ stats' = recordMiss(S1.stats)
                       /\ emitted' = S1.emitted
                       /\ last' = Last("get", key, <<>>, <<>>, Undefined)
              ELSE /\ cache' = MapSet(cache,
                                 [entry EXCEPT !.lastAccessed = now])
                   /\ stats' = updateAccessTime(
                                 updateHitRate([stats EXCEPT !.hits = @ + 1]),
                                 duration)
                   /\ emitted' = <<>>
                   /\ last' = Last("get", key, <<>>, <<>>,
                                   Value(entry.value))
  /\ UNCHANGED <<now, cleanupInterval, statsUpdateInterval, cacheManager>>

remove(key) ==
  LET S1 == delete(Here, key)
  IN  /\ cache' = S1.cache
      /\ stats' = S1.stats
      /\ emitted' = S1.emitted
      /\ last' = Last("delete", key, <<>>, <<>>, Bool(S1.ret))
      /\ UNCHANGED <<now, cleanupInterval, statsUpdateInterval, cacheManager>>

\* clear that resets the statistics and leaves the entries in the map
clear_KeepsEntries ==
  /\ stats' = resetStats
  /\ emitted' = <<>>
  /\ last' = Last("clear", NoKey, <<>>, <<>>, Void)
  /\ UNCHANGED <<cache, now, cleanupInterval, statsUpdateInterval,
               cacheManager>>

clear ==
  /\ cache' = <<>>
  /\ stats' = resetStats
  /\ emitted' = <<>>
  /\ last' = Last("clear", NoKey, <<>>, <<>>, Void)
  /\ UNCHANGED <<now, cleanupInterval, statsUpdateInterval, cacheManager>>

\* destroy that forgets to clear the statistics interval
destroy_KeepsStatsTimer ==
  /\ cleanupInterval' = FALSE
  /\ cache' = <<>>
  /\ stats' = resetStats
  /\ emitted' = <<>>
  /\ last' = Last("destroy", NoKey, <<>>, <<>>, Void)
  /\ UNCHANGED <<now, statsUpdateInterval, cacheManager>>

destroy ==
  /\ cleanupInterval' = FALSE
  /\ statsUpdateInterval' = FALSE
  /\ cache' = <<>>
  /\ stats' = resetStats
  /\ emitted' = <<>>
  /\ last' = Last("destroy", NoKey, <<>>, <<>>, Void)
  /\ UNCHANGED <<now, cacheManager>>

(***************************************************************************)
(* Interval callbacks and the clock                                        *)
(***************************************************************************)
evictStale ==
  /\ cleanupInterval
  /\ LET S1 == evictStaleLoop(Here, cache, now)
     IN  /\ cache' = S1.cache
         /\ stats' = S1.stats
         /\ emitted' = S1.emitted
  /\ last' = Last("evictStale", NoKey, <<>>, <<>>, Void)
  /\ UNCHANGED <<now, cleanupInterval, statsUpdateInterval, cacheManager>>

updateStats ==
  /\ statsUpdateInterval
  /\ stats' = updateHitRate(stats)
  /\ emitted' = <<>>
  /\ last' = Last("updateStats", NoKey, <<>>, <<>>, Void)
  /\ UNCHANGED <<cache, now, cleanupInterval, statsUpdateInterval,
               cacheManager>>

Tick ==
  /\ now' = now + TickMs
  /\ emitted' = <<>>
  /\ last' = Last("tick", NoKey, <<>>, <<>>, Void)
  /\ UNCHANGED <<cache, stats, cleanupInterval, statsUpdateInterval,
               cacheManager>>

(***************************************************************************)
(* Bounds on the two counters that grow without limit                      *)
(***************************************************************************)
GetsBelow(n) == stats.hits + stats.misses < n

ClockBelow(n) == now < n * TickMs

(***************************************************************************)
(* Spec: every operation, two keys, values of size 4, 6 and 10.            *)
(***************************************************************************)
Next ==
  \/ \E key \in Keys, value \in Values, ttl \in TTLArgs, d \in Durations :
       set(key, value, ttl, d)
  \/ \E key \in Keys, d \in Durations : GetsBelow(MaxGets) /\ get(key, d)
  \/ \E key \in Keys : remove(key)
  \/ clear
  \/ destroy
  \/ evictStale
  \/ updateStats
  \/ ClockBelow(MaxTicks) /\ Tick

Spec == Init /\ [][Next]_vars

(***************************************************************************)
(* SpecHits: every operation on one key and one value, with more gets.     *)
(***************************************************************************)
NextHits ==
  \/ \E key \in KeysH, value \in ValuesH, ttl \in TTLArgs, d \in Durations :
       set(key, value, ttl, d)
  \/ \E key \in KeysH, d \in Durations : GetsBelow(MaxGetsH) /\ get(key, d)
  \/ \E key \in KeysH : remove(key)
  \/ clear
  \/ destroy
  \/ evictStale
  \/ updateStats
  \/ ClockBelow(MaxTicks) /\ Tick

SpecHits == Init /\ [][NextHits]_vars

(***************************************************************************)
(* The same methods with their exceptional paths.  Nothing in              *)
(* CacheManager or sendSseEvent catches an exception, so one thrown by     *)
(* client.write inside sendSseEvent, or by calculateSize, leaves the       *)
(* method at the statement that threw.  failAt is the number of the        *)
(* sendSseEvent call of the method at which the sink throws (0: never);    *)
(* the call is recorded in `emitted` also when it throws.                  *)
(***************************************************************************)
Threw(kind) == <<"throws", kind>>

SinkThrows(em, failAt) == Len(em) + 1 = failAt

HereX == [cache |-> cache, stats |-> stats, emitted |-> <<>>,
          thrown |-> FALSE]

deleteX(S, key, failAt) ==
  IF HasKey(S.cache, key)
  THEN LET entry == EntryOf(S.cache, key)
           c2    == MapDelete(S.cache, key)
       IN  [cache   |-> c2,
            stats   |-> [S.stats EXCEPT
                           !.memoryUsage = @ - entry.size,
                           !.totalEntries = Len(c2)],
            emitted |-> sendSseEvent(S.emitted, "cache-delete", key, <<>>),
            thrown  |-> SinkThrows(S.emitted, failAt),
            ret     |-> TRUE]
  ELSE [cache |-> S.cache, stats |-> S.stats, emitted |-> S.emitted,
        thrown |-> FALSE, ret |-> FALSE]

Triple(S) == [cache |-> S.cache, stats |-> S.stats, emitted |-> S.emitted,
              thrown |-> S.thrown]

RECURSIVE evictStaleLoopX(_, _, _, _)
evictStaleLoopX(S, todo, t, failAt) ==
  IF S.thrown \/ todo = <<>> THEN S
  ELSE LET e  == Head(todo)
           S2 == IF HasKey(S.cache, e.key) /\ isExpired(e, t)
                 THEN Triple(deleteX(S, e.key, failAt)) ELSE S
       IN  evictStaleLoopX(S2, Tail(todo), t, failAt)

RECURSIVE enforceLoopX(_, _, _, _)
enforceLoopX(S, entries, requiredSize, failAt) ==
  IF /\ ~S.thrown
     /\ S.stats.memoryUsage + requiredSize > maxMemory
     /\ Len(entries) > 0
  THEN enforceLoopX(Triple(deleteX(S, Head(entries).key, failAt)),
                    Tail(entries), requiredSize, failAt)
  ELSE S

enforceMemoryLimitX(S, requiredSize, failAt) ==
  enforceLoopX(S, SortByLastAccessed(S.cache), requiredSize, failAt)

\* arg = <<>>: value is undefined, JSON.stringify returns undefined and
\* str.length throws a TypeError before anything is changed
setX(key, arg, ttl, duration, failAt) ==
  /\ IF arg = <<>>
     THEN /\ UNCHANGED <<cache, stats>>
          /\ emitted' = <<>>
          /\ last' = Last("set", key, arg, ttl, Threw("TypeError"))
     ELSE LET value == arg[1]
              size  == calculateSize(value)
              S1    == IF stats.memoryUsage + size > maxMemory
                       THEN enforceMemoryLimitX(HereX, size, failAt)
                       ELSE HereX
              entry == [key |-> key, value |-> value, created |-> now,
                        lastAccessed |-> now,
                        ttl |-> ttlOrDefault(ttl),
                        size |-> size]
              c2    == MapSet(S1.cache, entry)
              st2   == [S1.stats EXCEPT !.totalEntries = Len(c2),
                                        !.memoryUsage = @ + size]
          IN  IF S1.thrown
              THEN /\ cache' = S1.cache
                   /\ stats' = S1.stats
                   /\ emitted' = S1.emitted
                   /\ last' = Last("set", key, arg, ttl, Threw("SinkError"))
              ELSE /\ cache' = c2
                   /\ stats' = updateAccessTime(st2, duration)
                   /\ emitted' = sendSseEvent(S1.emitted, "cache-set", key,
                                              <<value>>)
                   /\ last' = Last("set", key, arg, ttl,
                                   IF SinkThrows(S1.emitted, failAt)
                                   THEN Threw("SinkError") ELSE Void)
  /\ UNCHANGED <<now, cleanupInterval, statsUpdateInterval, cacheManager>>

getX(key, duration, failAt) ==
  /\ IF ~HasKey(cache, key)
     THEN /\ stats' = recordMiss(stats)
          /\ cache' = cache
          /\ emitted' = <<>>
          /\ last' = Last("get", key, <<>>, <<>>, Undefined)
     ELSE LET entry == EntryOf(cache, key)
          IN  IF isExpired(entry, now)
              THEN LET S1 == deleteX(HereX, key, failAt)
                   IN  /\ cache' = S1.cache
                       /\ stats' = IF S1.thrown THEN S1.stats
                                   ELSE recordMiss(S1.stats)
                       /\ emitted' = S1.emitted
                       /\ last' = Last("get", key, <<>>, <<>>,
                                       IF S1.thrown THEN Threw("SinkError")
                                       ELSE Undefined)
              ELSE /\ cache' = MapSet(cache,
                                 [entry EXCEPT !.lastAccessed = now])
                   /\ stats' = updateAccessTime(
                                 updateHitRate([stats EXCEPT !.hits = @ + 1]),
                                 duration)
                   /\ emitted' = <<>>
                   /\ last' = Last("get", key, <<>>, <<>>,
                                   Value(entry.value))
  /\ UNCHANGED <<now, cleanupInterval, statsUpdateInterval, cacheManager>>

removeX(key, failAt) ==
  LET S1 == deleteX(HereX, key, failAt)
  IN  /\ cache' = S1.cache
      /\ stats' = S1.stats
      /\ emitted' = S1.emitted
      /\ last' = Last("delete", key, <<>>, <<>>,
                      IF S1.thrown THEN Threw("SinkError") ELSE Bool(S1.ret))
      /\ UNCHANGED <<now, cleanupInterval, statsUpdateInterval, cacheManager>>

evictStaleX(failAt) ==
  /\ cleanupInterval
  /\ LET S1 == evictStaleLoopX(HereX, cache, now, failAt)
     IN  /\ cache' = S1.cache
         /\ stats' = S1.stats
         /\ emitted' = S1.emitted
         /\ last' = Last("evictStale", NoKey, <<>>, <<>>,
                         IF S1.thrown THEN Threw("SinkError") ELSE Void)
  /\ UNCHANGED <<now, cleanupInterval, statsUpdateInterval, cacheManager>>

(***************************************************************************)
(* SpecErr: the methods with their exceptional paths; the sink may throw   *)
(* and the value of a put may be undefined.                                *)
(***************************************************************************)
NextErr ==
  \/ \E key \in Keys, arg \in ArgsE, ttl \in TTLArgs, d \in Durations,
        failAt \in FailAts : setX(key, arg, ttl, d, failAt)
  \/ \E key \in Keys, d \in Durations, failAt \in FailAts :
       GetsBelow(MaxGetsE) /\ getX(key, d, failAt)
  \/ \E key \in Keys, failAt \in FailAts : removeX(key, failAt)
  \/ clear
  \/ destroy
  \/ \E failAt \in FailAts : evictStaleX(failAt)
  \/ updateStats
  \/ ClockBelow(MaxTicksE) /\ Tick

SpecErr == Init /\ [][NextErr]_vars

(***************************************************************************)
(* SpecAvg: every operation on one key and one value, with operations      *)
(* that take 1 or 2 ms.  The running mean is an exact rational; the        *)
(* operations that update it are stopped once its denominator reaches      *)
(* MaxDen.                                                                 *)
(***************************************************************************)
AvgDenBelow(n) == stats.avgAccessTime.d < n

NextAvg ==
  \/ \E key \in KeysH, value \in ValuesH, ttl \in TTLArgs, d \in DurationsA :
       AvgDenBelow(MaxDen) /\ set(key, value, ttl, d)
  \/ \E key \in KeysH, d \in DurationsA :
       GetsBelow(MaxGetsA) /\ AvgDenBelow(MaxDen) /\ get(key, d)
  \/ \E key \in KeysH : remove(key)
  \/ clear
  \/ destroy
  \/ evictStale
  \/ updateStats
  \/ ClockBelow(MaxTicks) /\ Tick

SpecAvg == Init /\ [][NextAvg]_vars

(***************************************************************************)
(* SpecLive: the operations on one key and one value, with the two timers  *)
(* of the constructor.  setInterval calls evictStale again and again while *)
(* cleanupInterval is not cleared, and the clock goes on: both steps are   *)
(* weakly fair.                                                            *)
(***************************************************************************)
NextLive ==
  \/ \E key \in KeysH, value \in ValuesL, ttl \in TTLArgs, d \in Durations :
       set(key, value, ttl, d)
  \/ \E key \in KeysH, d \in Durations : GetsBelow(MaxGetsL) /\ get(key, d)
  \/ \E key \in KeysH : remove(key)
  \/ clear
  \/ destroy
  \/ evictStale
  \/ updateStats
  \/ ClockBelow(MaxTicks) /\ Tick

SpecLive ==
  /\ Init /\ [][NextLive]_vars
  /\ WF_vars(evictStale)
  /\ WF_vars(ClockBelow(MaxTicks) /\ Tick)

(***************************************************************************)
(* SpecTwo: the two front ends of src/src/index.ts.  The stdio tool        *)
(* handlers of MemoryCacheServer call this.cacheManager (the actions set   *)
(* and get above), SIGINT calls close, which calls                         *)
(* this.cacheManager.destroy(), and the route POST /mcp calls the          *)
(* module-level cacheManager, which was constructed without a config.      *)
(***************************************************************************)
ModuleHere ==
  [cache |-> cacheManager.cache, stats |-> cacheManager.stats,
   emitted |-> <<>>]

\* enforceMemoryLimit of the module-level instance
RECURSIVE enforceLoopDefault(_, _, _)
enforceLoopDefault(S, entries, requiredSize) ==
  IF /\ S.stats.memoryUsage + requiredSize > DefaultMaxMemory
     /\ Len(entries) > 0
  THEN LET S2 == delete(S, Head(entries).key)
       IN  enforceLoopDefault([cache |-> S2.cache, stats |-> S2.stats,
                               emitted |-> S2.emitted],
                              Tail(entries), requiredSize)
  ELSE S

\* callTool store_data of POST /mcp: cacheManager.set(key, value, ttl)
mcpStoreData(key, value, ttl, duration) ==
  LET size  == calculateSize(value)
      S1    == IF ModuleHere.stats.memoryUsage + size > DefaultMaxMemory
               THEN enforceLoopDefault(ModuleHere,
                                       SortByLastAccessed(ModuleHere.cache),
                                       size)
               ELSE ModuleHere
      entry == [key |-> key, value |-> value, created |-> now,
                lastAccessed |-> now,
                ttl |-> IF ttl = <<>> THEN DefaultTTL ELSE ttl[1],
                size |-> size]
      c2    == MapSet(S1.cache, entry)
      st2   == [S1.stats EXCEPT !.totalEntries = Len(c2),
                                !.memoryUsage = @ + size]
  IN  /\ cacheManager' = [cacheManager EXCEPT
                            !.cache = c2,
                            !.stats = updateAccessTime(st2, duration)]
      /\ emitted' = sendSseEvent(S1.emitted, "cache-set", key, <<value>>)
      /\ last' = Last("mcp store_data", key, <<value>>, ttl, Void)
      /\ UNCHANGED <<cache, stats, now, cleanupInterval, statsUpdateInterval>>

\* callTool retrieve_data of POST /mcp: cacheManager.get(key)
mcpRetrieveData(key, duration) ==
  /\ IF ~HasKey(cacheManager.cache, key)
     THEN /\ cacheManager' = [cacheManager EXCEPT !.stats = recordMiss(@)]
          /\ emitted' = <<>>
          /\ last' = Last("mcp retrieve_data", key, <<>>, <<>>, Undefined)
     ELSE LET entry == EntryOf(cacheManager.cache, key)
          IN  IF isExpired(entry, now)
              THEN LET S1 == delete(ModuleHere, key)
                   IN  /\ cacheManager' = [cacheManager EXCEPT
                                             !.cache = S1.cache,
                                             !.stats = recordMiss(S1.stats)]
                       /\ emitted' = S1.emitted
                       /\ last' = Last("mcp retrieve_data", key, <<>>, <<>>,
                                       Undefined)
              ELSE /\ cacheManager' =
                        [cacheManager EXCEPT
                           !.cache = MapSet(@, [entry EXCEPT
                                                  !.lastAccessed = now]),
                           !.stats = updateAccessTime(
                                       updateHitRate([@ EXCEPT
                                                        !.hits = @ + 1]),
                                       duration)]
                   /\ emitted' = <<>>
                   /\ last' = Last("mcp retrieve_data", key, <<>>, <<>>,
                                   Value(entry.value))
  /\ UNCHANGED <<cache, stats, now, cleanupInterval, statsUpdateInterval>>

ModuleGetsBelow(n) == cacheManager.stats.hits + cacheManager.stats.misses < n

ModuleUsageBelow(n) == cacheManager.stats.memoryUsage < n

NextTwo ==
  \/ \E key \in KeysH, value \in ValuesE, ttl \in TTLArgs, d \in Durations :
       set(key, value, ttl, d)
  \/ \E key \in KeysH, d \in Durations : GetsBelow(MaxGetsE) /\ get(key, d)
  \/ \E key \in KeysH, value \in ValuesE, ttl \in TTLArgs, d \in Durations :
       ModuleUsageBelow(MaxUsageM) /\ mcpStoreData(key, value, ttl, d)
  \/ \E key \in KeysH, d \in Durations :
       ModuleGetsBelow(MaxGetsM) /\ mcpRetrieveData(key, d)
  \/ destroy
  \/ ClockBelow(MaxTicksE) /\ Tick

SpecTwo == Init /\ [][NextTwo]_vars

(***************************************************************************)
(* Properties                                                              *)
(***************************************************************************)
\* entries of a map as a set, and the keys an operation notified as removed
EntriesOf(c) == {c[i] : i \in 1..Len(c)}

DeletedKeys(em) == {em[i].key : i \in {j \in 1..Len(em) : em[j].event = "cache-delete"}}

DeleteEvent(key) == [event |-> "cache-delete", key |-> key, value |-> <<>>]

\* C1: after any sequence of operations, overwriting puts included,
\* stats.memoryUsage equals the sum of entry.size over the entries in the map.
C1_MemoryUsageIsSumOfSizes == stats.memoryUsage = SumSizes(cache)

\* C2: after every put whose entry size does not by itself exceed maxMemory,
\* stats.memoryUsage <= maxMemory.
C2_PutKeepsMemoryWithinLimit ==
  (last.op = "set" /\ calculateSize(last.value[1]) <= maxMemory)
    => stats.memoryUsage <= maxMemory

\* C3: in every reachable state stats.totalEntries equals the number of keys
\* in the map.
C3_TotalEntriesIsMapSize == stats.totalEntries = Cardinality(KeysOf(cache))

C3_Witness ==
  /\ last.op = "delete"
  /\ last.ret = Bool(TRUE)
  /\ Len(cache) = 1
  /\ stats.totalEntries = 1

\* C4: every entry a put evicts has a lastAccessed that is less than or equal
\* to the lastAccessed of every entry that was in the map before the put and
\* was not evicted by it.
C4_EvictsLeastRecentlyAccessed ==
  [][last'.op = "set" =>
       \A e \in EntriesOf(cache), s \in EntriesOf(cache) :
          (e.key \in DeletedKeys(emitted') /\ s.key \notin DeletedKeys(emitted'))
            => e.lastAccessed <= s.lastAccessed]_vars

\* a put has evicted exactly one of two entries; the other one, which was
\* inserted first and read later, is still in the map next to the new entry
C4_Witness ==
  /\ last.op = "set"
  /\ Len(emitted) = 2
  /\ emitted[1].event = "cache-delete"
  /\ emitted[1].key = last.key
  /\ Len(cache) = 2
  /\ cache[1].key # last.key
  /\ cache[1].created < cache[1].lastAccessed

C7_GetPurgesExpiredEntry ==
  [][\A key \in Keys :
       (/\ last'.op = "get"
        /\ last'.key = key
        /\ HasKey(cache, key)
        /\ now > EntryOf(cache, key).created + EntryOf(cache, key).ttl * 1000)
         => /\ ~HasKey(cache', key)
            /\ KeysOf(cache') = KeysOf(cache) \ {key}
            /\ stats'.totalEntries = stats.totalEntries - 1
            /\ stats'.memoryUsage = stats.memoryUsage - EntryOf(cache, key).size
            /\ emitted' = <<DeleteEvent(key)>>]_vars

\* a get has purged an expired entry and left another entry in the map
C7_Witness ==
  /\ last.op = "get"
  /\ last.ret = Undefined
  /\ emitted = <<DeleteEvent(last.key)>>
  /\ ~HasKey(cache, last.key)
  /\ Len(cache) = 1

\* C8: in every reachable state stats.hitRate equals
\* hits / (hits + misses) * 100 when hits + misses > 0 and 0 otherwise.
C8_HitRateIsPercentageOfHits ==
  LET total == stats.hits + stats.misses
  IN  /\ stats.hitRate.k = "fin"
      /\ stats.hitRate.d > 0
      /\ total > 0 => stats.hitRate.n * total = stats.hits * 100 * stats.hitRate.d
      /\ total = 0 => stats.hitRate.n = 0

\* three hits and one miss: the hit rate is 75
C8_Witness ==
  /\ stats.hits = 3
  /\ stats.misses = 1
  /\ stats.hitRate = [k |-> "fin", n |-> 75, d |-> 1]

\* C9: clear leaves the map empty and every field of the statistics record
\* 0, and emits no notification.
C9_ClearResetsEverything ==
  [][last'.op = "clear" =>
       /\ cache' = <<>>
       /\ stats'.totalEntries = 0
       /\ stats'.memoryUsage = 0
       /\ stats'.hits = 0
       /\ stats'.misses = 0
       /\ stats'.hitRate = [k |-> "fin", n |-> 0, d |-> 1]
       /\ stats'.avgAccessTime = [k |-> "fin", n |-> 0, d |-> 1]
       /\ emitted' = <<>>]_vars

\* the state a clear has left
C9_Witness ==
  /\ last.op = "clear"
  /\ cache = <<>>
  /\ stats.memoryUsage = 0

\* C10: after a put the key is in the map with the value just put, with the
\* ttl given or defaultTTL when none was given, and with created and
\* lastAccessed equal to the time of the put, also when the size of the new
\* entry alone exceeds maxMemory.
C10_PutInsertsTheEntry ==
  last.op = "set" =>
    /\ HasKey(cache, last.key)
    /\ LET e == EntryOf(cache, last.key)
       IN  /\ e.value = last.value[1]
           /\ e.ttl = (IF last.ttl = <<>> THEN defaultTTL ELSE last.ttl[1])
           /\ e.created = now
           /\ e.lastAccessed = now

\* a put of an entry larger than maxMemory, given the ttl 0, has evicted the
\* two entries that were in the map and is the only entry left
C10_Witness ==
  /\ last.op = "set"
  /\ last.ttl = <<0>>
  /\ Len(emitted) = 3
  /\ Len(cache) = 1
  /\ cache[1].key = last.key
  /\ cache[1].size > maxMemory
  /\ cache[1].ttl = 0

C12_SinkFailureNeverPropagates == last.ret # Threw("SinkError")

\* C13: a put whose value cannot be serialized fails with a
\* SerializationError.
C13_UnserializableValueIsSerializationError ==
  (last.op = "set" /\ last.value = <<>>)
    => last.ret = Threw("SerializationError")

AllZero(st) ==
  /\ st.totalEntries = 0
  /\ st.memoryUsage = 0
  /\ st.hits = 0
  /\ st.misses = 0
  /\ st.hitRate = [k |-> "fin", n |-> 0, d |-> 1]
  /\ st.avgAccessTime = [k |-> "fin", n |-> 0, d |-> 1]

\* C14: destroy leaves the map empty, the statistics all zero and both
\* intervals stopped; once an interval is stopped it stays stopped and its
\* callback (the sweep, the statistics refresh) never runs again; a destroy
\* of an engine that is already shut down changes nothing.
C14_DestroyStopsEverything ==
  [][/\ last'.op = "destroy" =>
          /\ cache' = <<>>
          /\ AllZero(stats')
          /\ ~cleanupInterval'
          /\ ~statsUpdateInterval'
     /\ ~cleanupInterval =>
          (~cleanupInterval' /\ last'.op # "evictStale")
     /\ ~statsUpdateInterval =>
          (~statsUpdateInterval' /\ last'.op # "updateStats")
     /\ (/\ last'.op = "destroy"
         /\ ~cleanupInterval
         /\ ~statsUpdateInterval
         /\ cache = <<>>
         /\ AllZero(stats)) =>
          /\ UNCHANGED <<cache, stats, now, cleanupInterval,
                         statsUpdateInterval>>
          /\ emitted' = <<>>]_vars

\* destroyed after the clock has advanced (the engine has been running)
C14_Witness ==
  /\ last.op = "destroy"
  /\ ~cleanupInterval
  /\ ~statsUpdateInterval
  /\ cache = <<>>
  /\ now > 0

\* C15: every get, hit or miss, that takes the time d applies
\* avg_new = (avg_old * (n - 1) + d) / n to stats.avgAccessTime, with
\* n = hits + misses counting that get, so that avgAccessTime is the mean of
\* the durations of the gets.
C15_EveryGetUpdatesRunningMean ==
  [][\A key \in KeysH, d \in DurationsA :
       get(key, d) =>
         LET n == stats'.hits + stats'.misses
         IN  stats'.avgAccessTime =
               NumDivInt(NumPlusInt(NumTimesInt(stats.avgAccessTime, n - 1),
                                    d), n)]_vars

\* C16: no put, get, remove, sweep or statistics refresh (nor the clock)
\* lowers stats.hits or stats.misses; clear and destroy set both to 0.
C16_CountersOnlyResetByClear ==
  [][IF last'.op \in {"clear", "destroy"}
     THEN stats'.hits = 0 /\ stats'.misses = 0
     ELSE stats'.hits >= stats.hits /\ stats'.misses >= stats.misses]_vars

C16_Witness == last.op = "get" /\ stats.hits >= 1 /\ stats.misses >= 1

IsDeleteEvent(e) == e.event = "cache-delete"

Evictions(em) == SelectSeq(em, IsDeleteEvent)

\* the bytes released by the first n removals of ev, taken from the map c
RECURSIVE FreedBy(_, _, _)
FreedBy(ev, c, n) ==
  IF n = 0 THEN 0
  ELSE EntryOf(c, ev[n].key).size + FreedBy(ev, c, n - 1)

\* C17: a put for which memoryUsage + size <= maxMemory at entry removes no
\* entry and emits no remove notification; a put that evicts removes entries
\* of the map only, and each one only while the projected usage, after the
\* removals before it, still exceeds maxMemory.
C17_EvictsOnlyWhileOverLimit ==
  [][last'.op = "set" =>
       LET size == calculateSize(last'.value[1])
           ev   == Evictions(emitted')
       IN  /\ stats.memoryUsage + size <= maxMemory =>
                /\ ev = <<>>
                /\ \A e \in EntriesOf(cache) :
                      e.key # last'.key => e \in EntriesOf(cache')
           /\ \A i \in 1..Len(ev) :
                /\ HasKey(cache, ev[i].key)
                /\ stats.memoryUsage - FreedBy(ev, cache, i - 1) + size
                     > maxMemory]_vars

C17_Witness ==
  last.op = "set" /\ Len(Evictions(emitted)) = 1 /\ Len(cache) = 2

SetEvent(key, value) == [event |-> "cache-set", key |-> key, value |-> value]

ExpiredAt(c, t) == {e \in EntriesOf(c) : t > e.created + e.ttl * 1000}

RECURSIVE SumSizeOf(_)
SumSizeOf(es) ==
  IF es = {} THEN 0
  ELSE LET e == CHOOSE x \in es : TRUE
       IN  e.size + SumSizeOf(es \ {e})

Times == {i * TickMs : i \in 0..MaxTicks}

\* the entry of key that was put at the time c with the time to live ttl
SameEntry(key, c, ttl) ==
  /\ HasKey(cache, key)
  /\ EntryOf(cache, key).created = c
  /\ EntryOf(cache, key).ttl = ttl

\* C20: while the sweep timer is set, every entry of the map whose time to
\* live ends before the clock of the model stops is eventually not that
\* entry of the map any more (removed or overwritten), whether or not
\* anybody reads its key.
C20_ExpiredEntryEventuallyGone ==
  \A key \in KeysH, c \in Times, ttl \in 0..defaultTTL :
    (cleanupInterval /\ SameEntry(key, c, ttl)
       /\ c + ttl * 1000 < MaxTicks * TickMs)
      ~> (~SameEntry(key, c, ttl) \/ ~cleanupInterval)

C20_Witness ==
  /\ last.op = "evictStale"
  /\ cleanupInterval
  /\ emitted = <<DeleteEvent("a")>>
  /\ cache = <<>>
  /\ stats.hits + stats.misses = 0

\* C21: a get of a key that is present and not expired changes, in the map,
\* only the lastAccessed of that entry (value, created, ttl, size, the other
\* entries and the order of the keys stay) and, in the statistics, only
\* hits, hitRate and avgAccessTime; it emits no notification and returns the
\* value.
C21_HitChangesOnlyLastAccessed ==
  [][\A key \in Keys :
       (/\ last'.op = "get" /\ last'.key = key
        /\ HasKey(cache, key)
        /\ now <= EntryOf(cache, key).created
                    + EntryOf(cache, key).ttl * 1000) =>
          /\ cache' = [cache EXCEPT ![IndexOf(cache, key)].lastAccessed = now]
          /\ stats'.hits = stats.hits + 1
          /\ stats' = [stats EXCEPT !.hits = stats'.hits,
                                    !.hitRate = stats'.hitRate,
                                    !.avgAccessTime = stats'.avgAccessTime]
          /\ emitted' = <<>>
          /\ last'.ret = Value(EntryOf(cache, key).value)]_vars

C21_Witness ==
  /\ last.op = "get"
  /\ last.ret = Value("")
  /\ Len(cache) = 2
  /\ EntryOf(cache, last.key).lastAccessed > EntryOf(cache, last.key).created

\* C22: in every reachable state stats.memoryUsage is at least the sum of
\* entry.size over the entries of the map, and so is never negative.
C22_MemoryUsageNeverUndercounts ==
  /\ stats.memoryUsage >= SumSizes(cache)
  /\ stats.memoryUsage >= 0

C22_Witness ==
  /\ last.op = "delete"
  /\ last.ret = Bool(TRUE)
  /\ stats.memoryUsage > SumSizes(cache)

\* C23: updateAccessTime never divides by hits + misses = 0, so
\* stats.avgAccessTime is a finite number that is not negative in every
\* reachable state, also after a put that comes before any get.
C23_AvgAccessTimeIsFinite ==
  /\ stats.avgAccessTime.k = "fin"
  /\ stats.avgAccessTime.n >= 0

\* what one notification does to a key set
ReplayOne(ks, e) ==
  IF e.event = "cache-set" THEN ks \cup {e.key} ELSE ks \ {e.key}

\* the key set after replaying the notifications em, in order, onto ks
RECURSIVE Replay(_, _)
Replay(ks, em) ==
  IF em = <<>> THEN ks ELSE Replay(ReplayOne(ks, Head(em)), Tail(em))

\* every remove notification of em finds its key in the replayed key set
RECURSIVE EveryRemoveMatches(_, _)
EveryRemoveMatches(ks, em) ==
  \/ em = <<>>
  \/ /\ Head(em).event = "cache-delete" => Head(em).key \in ks
     /\ EveryRemoveMatches(ReplayOne(ks, Head(em)), Tail(em))

EventsFor(em, event, key) ==
  {i \in 1..Len(em) : em[i].event = event /\ em[i].key = key}

\* C24: the key set of the map after a step is the key set before it with
\* the notifications of the step replayed in order (cache-set adds its key,
\* cache-delete deletes it); each remove notification deletes a key that is
\* there, each put notification is for the key the put stored, no key is
\* notified twice for the same change, and clear and destroy, which empty
\* the map, emit nothing.  By induction the key set is the replay of all
\* notifications since the last clear.
C24_KeySetIsReplayOfNotifications ==
  [][IF last'.op \in {"clear", "destroy"}
     THEN cache' = <<>> /\ emitted' = <<>>
     ELSE /\ KeysOf(cache') = Replay(KeysOf(cache), emitted')
          /\ EveryRemoveMatches(KeysOf(cache), emitted')
          /\ \A key \in Keys :
                /\ Cardinality(EventsFor(emitted', "cache-delete", key)) <= 1
                /\ Cardinality(EventsFor(emitted', "cache-set", key)) <= 1
                /\ EventsFor(emitted', "cache-set", key) # {} =>
                      /\ last'.op = "set" /\ last'.key = key
                      /\ HasKey(cache', key)
                /\ (HasKey(cache, key) /\ ~HasKey(cache', key)) =>
                      EventsFor(emitted', "cache-delete", key) # {}
                /\ (~HasKey(cache, key) /\ HasKey(cache', key)) =>
                      EventsFor(emitted', "cache-set", key) # {}]_vars

C24_Witness ==
  /\ last.op = "set"
  /\ emitted = <<DeleteEvent(last.key), SetEvent(last.key, last.value)>>
  /\ Len(cache) = 2

NotExpired(entry) == now <= entry.created + entry.ttl * 1000

\* C25: the route POST /mcp and the stdio tool handlers work on one cache
\* state: retrieve_data through one front end returns the value that is
\* stored, and not expired, in the cache of the other, and both report the
\* same statistics.
C25_FrontEndsShareOneCache ==
  [][/\ \A key \in KeysH :
          /\ (/\ last'.op = "mcp retrieve_data" /\ last'.key = key
              /\ HasKey(cache, key) /\ NotExpired(EntryOf(cache, key))) =>
                last'.ret = Value(EntryOf(cache, key).value)
          /\ (/\ last'.op = "get" /\ last'.key = key
              /\ HasKey(cacheManager.cache, key)
              /\ NotExpired(EntryOf(cacheManager.cache, key))) =>
                last'.ret = Value(EntryOf(cacheManager.cache, key).value)
     /\ stats' = cacheManager'.stats]_vars

====
